---------------------------- MODULE Spec2Model ----------------------------
(***************************************************************************)
(* Model of the Inkeep MCP server (Cloudflare worker).  The repository     *)
(* holds three builds of the same worker: src/src/index.ts ("index"),      *)
(* src/unnamed/part_000 ("part_000") and src/unnamed/part_001              *)
(* ("part_001").  Each registers two tools, a documentation search (rag)   *)
(* tool and a question-answer (qa) tool, whose handlers read the static    *)
(* MyMCP.env, call the upstream completion endpoint once and turn the      *)
(* completion into a tool result { content: [...] }.                       *)
(***************************************************************************)
EXTENDS Integers, Sequences, FiniteSets, TLC

(***************************************************************************)
(* JavaScript / JSON values.  Every value is a record of one shape; `k`    *)
(* is the kind and only the field of that kind is meaningful.  An object   *)
(* keeps its members as a sequence of [key, val] in property order, which  *)
(* is the order JSON.stringify writes them in.                             *)
(*                                                                         *)
(* A string is its sequence of UTF-16 code units.  The printable ASCII     *)
(* characters other than the grave accent, and tab, line feed and          *)
(* carriage return, stand for themselves; any other code unit U+HHHH is    *)
(* written as the form-feed character followed by its four upper-case      *)
(* hexadecimal digits (the form feed itself is "\f000C", the grave accent  *)
(* "\f0060").  A number is held as the text String(x)                      *)
(* gives for it, which is also what JSON.stringify writes ("1.5", "1000",  *)
(* "1e+21", "Infinity"); 0 and -0, which no operation of the program       *)
(* tells apart, are both "0".                                              *)
(***************************************************************************)
JUndef == [k |-> "undef", s |-> "", n |-> "", a |-> <<>>, o |-> <<>>]
JNull == [k |-> "null", s |-> "", n |-> "", a |-> <<>>, o |-> <<>>]
JTrue == [k |-> "bool", s |-> "", n |-> "true", a |-> <<>>, o |-> <<>>]
JFalse == [k |-> "bool", s |-> "", n |-> "false", a |-> <<>>, o |-> <<>>]
\* the number whose String(x) is `text`
JNumber(text) == [k |-> "num", s |-> "", n |-> text, a |-> <<>>, o |-> <<>>]
\* the integer i
JNum(i) == JNumber(ToString(i))
JStr(t) == [k |-> "str", s |-> t, n |-> "", a |-> <<>>, o |-> <<>>]
JArr(elems) == [k |-> "arr", s |-> "", n |-> "", a |-> elems, o |-> <<>>]
JObj(members) == [k |-> "obj", s |-> "", n |-> "", a |-> <<>>, o |-> members]

\* One member of an object.
M(key, val) == [key |-> key, val |-> val]

\* Outcome of an evaluation that may throw: ok = FALSE is a thrown exception.
Ok(v) == [ok |-> TRUE, val |-> v]
Thrown == [ok |-> FALSE, val |-> JUndef]

Char(t, i) == IF i >= 1 /\ i <= Len(t) THEN SubSeq(t, i, i) ELSE ""

\* the mark that starts a code unit written in hexadecimal
UnitMark == "\f"
\* the number of characters the code unit at position i is written with
UnitLen(t, i) == IF Char(t, i) = UnitMark THEN 5 ELSE 1

HasKey(v, key) == v.k = "obj" /\ \E i \in 1..Len(v.o) : v.o[i].key = key

\* v[key] for a value that is not null or undefined: a missing property,
\* and any named property of a primitive, reads as undefined.
Get(v, key) ==
  IF HasKey(v, key)
  THEN v.o[CHOOSE i \in 1..Len(v.o) : v.o[i].key = key].val
  ELSE JUndef

\* v[0]: the first element of an array, the first code unit of a string
Index0(v) ==
  CASE v.k = "arr" -> IF Len(v.a) > 0 THEN v.a[1] ELSE JUndef
    [] v.k = "str" -> IF v.s = "" THEN JUndef ELSE JStr(SubSeq(v.s, 1, UnitLen(v.s, 1)))
    [] OTHER -> Get(v, "0")

IsNullish(v) == v.k \in {"undef", "null"}

\* v?.key and v?.[0]
OptGet(v, key) == IF IsNullish(v) THEN JUndef ELSE Get(v, key)
OptIndex0(v) == IF IsNullish(v) THEN JUndef ELSE Index0(v)

\* ToBoolean(v): what `if (v)`, `!v` and `v || w` test.
Truthy(v) ==
  CASE v.k \in {"undef", "null"} -> FALSE
    [] v.k = "bool" -> v = JTrue
    [] v.k = "num" -> v.n # "0"
    [] v.k = "str" -> v.s # ""
    [] OTHER -> TRUE

IsArray(v) == v.k = "arr"

(***************************************************************************)
(* Hexadecimal digits and code units.                                      *)
(***************************************************************************)
UpperHex == "0123456789ABCDEF"
LowerHex == "0123456789abcdef"
\* the characters U+0020 .. U+005F and U+0061 .. U+007E in order
PrintableLow == " !\"#$%&'()*+,-./0123456789:;<=>?@ABCDEFGHIJKLMNOPQRSTUVWXYZ[\\]^_"
PrintableHigh == "abcdefghijklmnopqrstuvwxyz{|}~"

IsHex(c) ==
  c # "" /\ \E i \in 1..16 : Char(UpperHex, i) = c \/ Char(LowerHex, i) = c
HexVal(c) == (CHOOSE i \in 1..16 : Char(UpperHex, i) = c \/ Char(LowerHex, i) = c) - 1

\* the code unit written with the four hexadecimal digits at t[i..i+3]
HexCode(t, i) ==
  4096 * HexVal(Char(t, i)) + 256 * HexVal(Char(t, i + 1))
    + 16 * HexVal(Char(t, i + 2)) + HexVal(Char(t, i + 3))

Hex4(code, digits) ==
  Char(digits, (code \div 4096) + 1) \o Char(digits, ((code \div 256) % 16) + 1)
    \o Char(digits, ((code \div 16) % 16) + 1) \o Char(digits, (code % 16) + 1)

\* the code unit `code` as it is written inside a string
CodeUnit(code) ==
  CASE code >= 32 /\ code <= 95 -> Char(PrintableLow, code - 31)
    [] code >= 97 /\ code <= 126 -> Char(PrintableHigh, code - 96)
    [] code = 9 -> "\t"
    [] code = 10 -> "\n"
    [] code = 13 -> "\r"
    [] OTHER -> UnitMark \o Hex4(code, UpperHex)

IsHighSurrogate(code) == code >= 55296 /\ code <= 56319
IsLowSurrogate(code) == code >= 56320 /\ code <= 57343

(***************************************************************************)
(* JSON.stringify                                                          *)
(***************************************************************************)
EscapeChar(c) ==
  CASE c = "\"" -> "\\\""
    [] c = "\\" -> "\\\\"
    [] c = "\n" -> "\\n"
    [] c = "\t" -> "\\t"
    [] c = "\r" -> "\\r"
    [] OTHER -> c

\* QuoteJSONString for one code unit written in hexadecimal: control
\* characters and lone surrogates are escaped, anything else is copied
EscapeCode(code, paired) ==
  IF code = 8 THEN "\\b"
  ELSE IF code = 12 THEN "\\f"
  ELSE IF code < 32 THEN "\\u" \o Hex4(code, LowerHex)
  ELSE IF (IsHighSurrogate(code) \/ IsLowSurrogate(code)) /\ ~paired
  THEN "\\u" \o Hex4(code, LowerHex)
  ELSE UnitMark \o Hex4(code, UpperHex)

RECURSIVE EscapeFrom(_, _)
EscapeFrom(t, i) ==
  LET \* a high surrogate directly followed by a low surrogate
      PairAt(j) ==
        /\ Char(t, j) = UnitMark /\ IsHighSurrogate(HexCode(t, j + 1))
        /\ Char(t, j + 5) = UnitMark /\ IsLowSurrogate(HexCode(t, j + 6))
  IN IF i > Len(t) THEN ""
     ELSE IF Char(t, i) # UnitMark THEN EscapeChar(Char(t, i)) \o EscapeFrom(t, i + 1)
     ELSE IF PairAt(i) THEN SubSeq(t, i, i + 9) \o EscapeFrom(t, i + 10)
     ELSE EscapeCode(HexCode(t, i + 1), FALSE) \o EscapeFrom(t, i + 5)

Escape(t) == EscapeFrom(t, 1)

Quote(t) == "\"" \o Escape(t) \o "\""

RECURSIVE Stringify(_), StringifyElems(_, _), StringifyMembers(_, _, _)
Stringify(v) ==
  CASE v.k = "null" -> "null"
    [] v.k = "bool" -> v.n
    [] v.k = "num" -> IF v.n \in {"Infinity", "-Infinity"} THEN "null" ELSE v.n
    [] v.k = "str" -> Quote(v.s)
    [] v.k = "arr" -> "[" \o StringifyElems(v.a, 1) \o "]"
    [] v.k = "obj" -> "{" \o StringifyMembers(v.o, 1, TRUE) \o "}"
    [] OTHER -> "null"

\* an undefined array element is written as null
StringifyElems(elems, i) ==
  IF i > Len(elems) THEN ""
  ELSE (IF i > 1 THEN "," ELSE "") \o Stringify(elems[i]) \o StringifyElems(elems, i + 1)

\* a member whose value is undefined is left out
StringifyMembers(members, i, first) ==
  IF i > Len(members) THEN ""
  ELSE IF members[i].val.k = "undef" THEN StringifyMembers(members, i + 1, first)
  ELSE (IF first THEN "" ELSE ",") \o Quote(members[i].key) \o ":"
         \o Stringify(members[i].val) \o StringifyMembers(members, i + 1, FALSE)

(***************************************************************************)
(* Decimal numerals.                                                       *)
(***************************************************************************)
IsDigit(c) == c \in {"0", "1", "2", "3", "4", "5", "6", "7", "8", "9"}
DigitVal(c) ==
  CASE c = "0" -> 0 [] c = "1" -> 1 [] c = "2" -> 2 [] c = "3" -> 3 [] c = "4" -> 4
    [] c = "5" -> 5 [] c = "6" -> 6 [] c = "7" -> 7 [] c = "8" -> 8 [] OTHER -> 9

RECURSIVE ParseDigits(_, _, _)
\* the value of the digits from t[i] on, and the position after them
ParseDigits(t, i, acc) ==
  IF IsDigit(Char(t, i)) THEN ParseDigits(t, i + 1, 10 * acc + DigitVal(Char(t, i)))
  ELSE [val |-> acc, next |-> i]

RECURSIVE DigitsEnd(_, _)
\* the position after the run of digits that starts at t[i]
DigitsEnd(t, i) == IF IsDigit(Char(t, i)) THEN DigitsEnd(t, i + 1) ELSE i

RECURSIVE StripLeadingZeros(_)
StripLeadingZeros(d) ==
  IF Char(d, 1) = "0" THEN StripLeadingZeros(SubSeq(d, 2, Len(d))) ELSE d
RECURSIVE StripTrailingZeros(_)
StripTrailingZeros(d) ==
  IF Char(d, Len(d)) = "0" THEN StripTrailingZeros(SubSeq(d, 1, Len(d) - 1)) ELSE d

RECURSIVE Zeros(_)
Zeros(m) == IF m <= 0 THEN "" ELSE "0" \o Zeros(m - 1)

RECURSIVE DigitsLessFrom(_, _, _)
DigitsLessFrom(x, y, i) ==
  IF i > Len(x) THEN FALSE
  ELSE IF Char(x, i) # Char(y, i) THEN DigitVal(Char(x, i)) < DigitVal(Char(y, i))
  ELSE DigitsLessFrom(x, y, i + 1)
\* x < y for two decimal numerals without leading zeros
DigitsLess(x, y) ==
  Len(x) < Len(y) \/ (Len(x) = Len(y) /\ DigitsLessFrom(x, y, 1))

\* Number::toString for the value 0.d * 10^n, d without leading or trailing
\* zeros
NumberToString(d, n) ==
  LET k == Len(d)
      Exponent(e) == (IF e < 0 THEN "e-" ELSE "e+") \o ToString(IF e < 0 THEN 0 - e ELSE e)
  IN IF k <= n /\ n <= 21 THEN d \o Zeros(n - k)
     ELSE IF 0 < n /\ n <= 21 THEN SubSeq(d, 1, n) \o "." \o SubSeq(d, n + 1, k)
     ELSE IF -6 < n /\ n <= 0 THEN "0." \o Zeros(0 - n) \o d
     ELSE IF k = 1 THEN d \o Exponent(n - 1)
     ELSE Char(d, 1) \o "." \o SubSeq(d, 2, k) \o Exponent(n - 1)

(***************************************************************************)
(* Natural numbers of any size, for the exact arithmetic of the number     *)
(* conversions: a sequence of limbs in base Base, least significant first  *)
(* (zero limbs at the end are allowed; <<>> is zero).                      *)
(***************************************************************************)
Base == 10000

Limb(a, i) == IF i <= Len(a) THEN a[i] ELSE 0
IsZero(a) == \A i \in 1..Len(a) : a[i] = 0

RECURSIVE CarryLimbs(_, _, _, _)
\* the limbs lo..hi of the number whose limb sums are x, given the carry into
\* limb lo, and the carry out of limb hi (a borrow is a negative carry)
CarryLimbs(x, lo, hi, cin) ==
  IF lo = hi
  THEN [r |-> <<(x[lo] + cin) % Base>>, c |-> (x[lo] + cin) \div Base]
  ELSE LET Joined(low, high) == [r |-> low.r \o high.r, c |-> high.c]
           After(low) == Joined(low, CarryLimbs(x, (lo + hi) \div 2 + 1, hi, low.c))
       IN After(CarryLimbs(x, lo, (lo + hi) \div 2, cin))

Carried(x) ==
  LET Whole(p) == IF p.c = 0 THEN p.r ELSE Append(p.r, p.c)
  IN IF Len(x) = 0 THEN <<>> ELSE Whole(CarryLimbs(x, 1, Len(x), 0))

\* a * c for 0 <= c <= Base
MulSmall(a, c) == Carried(<<>> \o [i \in 1..Len(a) |-> a[i] * c])
Add(a, b) == Carried(<<>> \o [i \in 1..(IF Len(a) > Len(b) THEN Len(a) ELSE Len(b)) |-> Limb(a, i) + Limb(b, i)])
\* a - b for a >= b
Sub(a, b) == Carried(<<>> \o [i \in 1..(IF Len(a) > Len(b) THEN Len(a) ELSE Len(b)) |-> Limb(a, i) - Limb(b, i)])

RECURSIVE CmpLimbs(_, _, _, _)
CmpLimbs(a, b, lo, hi) ==
  IF lo = hi
  THEN IF Limb(a, lo) < Limb(b, lo) THEN -1 ELSE IF Limb(a, lo) > Limb(b, lo) THEN 1 ELSE 0
  ELSE LET Upper(u) == IF u # 0 THEN u ELSE CmpLimbs(a, b, lo, (lo + hi) \div 2)
       IN Upper(CmpLimbs(a, b, (lo + hi) \div 2 + 1, hi))
\* -1, 0 or 1 as a is less than, equal to or greater than b
Cmp(a, b) ==
  IF Len(a) + Len(b) = 0 THEN 0
  ELSE CmpLimbs(a, b, 1, IF Len(a) > Len(b) THEN Len(a) ELSE Len(b))

\* a * 10^k
TimesPow10(a, k) == [i \in 1..(k \div 4) |-> 0] \o MulSmall(a, 10 ^ (k % 4))
RECURSIVE TimesPow2(_, _)
\* a * 2^k
TimesPow2(a, k) ==
  LET Rest(half) == IF IsZero(half) THEN <<>> ELSE TimesPow2(half, k - k \div 2)
  IN IF k <= 13 THEN MulSmall(a, 2 ^ k) ELSE Rest(TimesPow2(a, k \div 2))

\* the number a decimal numeral stands for
FromDigits(d) ==
  LET First(i) == IF Len(d) - 4 * i + 1 > 1 THEN Len(d) - 4 * i + 1 ELSE 1
  IN <<>> \o [i \in 1..((Len(d) + 3) \div 4) |->
               ParseDigits(SubSeq(d, First(i), Len(d) - 4 * (i - 1)), 1, 0).val]
RECURSIVE LimbDigits(_, _)
LimbDigits(a, i) ==
  IF i = 0 THEN "" ELSE SubSeq(ToString(Base + a[i]), 2, 5) \o LimbDigits(a, i - 1)
\* the decimal numeral of a, without leading zeros ("" for zero)
ToDigits(a) == StripLeadingZeros(LimbDigits(a, Len(a)))

RECURSIVE QuotLimb(_, _, _, _)
\* the greatest q in lo..hi with q * b <= a
QuotLimb(a, b, lo, hi) ==
  IF lo = hi THEN lo
  ELSE IF Cmp(MulSmall(b, (lo + hi + 1) \div 2), a) <= 0
  THEN QuotLimb(a, b, (lo + hi + 1) \div 2, hi)
  ELSE QuotLimb(a, b, lo, (lo + hi + 1) \div 2 - 1)

RECURSIVE DivFrom(_, _, _, _)
\* the quotient limb q at position p taken from a, s being b * Base^p
DivLimb(a, b, s, q, p, acc) == DivFrom(Sub(a, MulSmall(s, q)), b, p - 1, <<q>> \o acc)
DivShifted(a, b, s, p, acc) == DivLimb(a, b, s, QuotLimb(a, s, 0, Base - 1), p, acc)
DivFrom(a, b, p, acc) ==
  IF p < 0 THEN [q |-> acc, r |-> a]
  ELSE DivShifted(a, b, TimesPow10(b, 4 * p), p, acc)
\* quotient and remainder of a by b, for a quotient below Base^5
Div(a, b) == DivFrom(a, b, 4, <<>>)

(***************************************************************************)
(* Numbers.  JSON.parse reads a number as the double nearest to the        *)
(* decimal written (ties to the even mantissa; Infinity from               *)
(* 2^1024 - 2^970 on), and String(x) / JSON.stringify write the shortest   *)
(* decimal that reads back as that double, the nearest to it when several  *)
(* are as short.  A finite double is m * 2^e with 2^52 <= m < 2^53, or     *)
(* with m < 2^52 and e = -1074 (subnormal).  Fractions are [num, den].     *)
(***************************************************************************)
Ratio(a) == [num |-> a, den |-> <<1>>]
\* v / 10^j
Scale10(v, j) ==
  [num |-> TimesPow10(v.num, IF j < 0 THEN 0 - j ELSE 0),
   den |-> TimesPow10(v.den, IF j > 0 THEN j ELSE 0)]
\* v / 2^e
Scale2(v, e) ==
  [num |-> TimesPow2(v.num, IF e < 0 THEN 0 - e ELSE 0),
   den |-> TimesPow2(v.den, IF e > 0 THEN e ELSE 0)]
\* quotient and remainder of the numerator by the denominator
RatioDiv(w) == Div(w.num, w.den)

\* 1 <= w < 2
InOctave(w) == Cmp(w.den, w.num) <= 0 /\ Cmp(w.num, MulSmall(w.den, 2)) < 0
\* the e with 2^e <= v < 2^(e + 1), for 10^(n - 1) <= v < 10^n: it lies
\* between (n - 1) * log2(10) and n * log2(10), and log2(10) is 3.3219...
FloorLog2(v, n) ==
  CHOOSE e \in (((n - 1) * 33219) \div 10000 - 1)..((n * 33219) \div 10000 + 1) :
    InOctave(Scale2(v, e))

\* 2^52, the least mantissa of a normal double
TwoTo52 == FromDigits("4503599627370496")
DoubleZero == [cls |-> "zero", m |-> <<>>, e |-> 0]
DoubleInfinity == [cls |-> "inf", m |-> <<>>, e |-> 0]

\* q or q + 1, whichever is nearer to q + r / den, the even one of the two
\* when it is half way; c compares 2 * r with den
RoundUpIf(q, c) ==
  IF c > 0 \/ (c = 0 /\ Limb(q, 1) % 2 = 1) THEN Add(q, <<1>>) ELSE q
RoundHalfEven(d, den) == RoundUpIf(d.q, Cmp(MulSmall(d.r, 2), den))

\* the double m * 2^e, m being a rounded mantissa (2^53 at most)
Double(m, e) ==
  IF IsZero(m) THEN DoubleZero
  ELSE IF Cmp(m, MulSmall(TwoTo52, 2)) = 0
  THEN (IF e + 1 > 971 THEN DoubleInfinity ELSE [cls |-> "fin", m |-> TwoTo52, e |-> e + 1])
  ELSE IF e > 971 THEN DoubleInfinity
  ELSE [cls |-> "fin", m |-> m, e |-> e]
\* v in units of 2^e, rounded
MantissaAt(w) == RoundHalfEven(RatioDiv(w), w.den)
\* 53 bits from the leading one, fewer where that goes below 2^-1074
DoubleFrom(v, log) ==
  Double(MantissaAt(Scale2(v, IF log - 52 > -1074 THEN log - 52 ELSE -1074)),
         IF log - 52 > -1074 THEN log - 52 ELSE -1074)
DoubleOf(v, n) == DoubleFrom(v, FloorLog2(v, n))
\* the double nearest to 0.d * 10^n, d without leading or trailing zeros
ToDouble(d, n) ==
  IF d = "" THEN DoubleZero
  ELSE IF n > 309 THEN DoubleInfinity
  ELSE IF n < -323 THEN DoubleZero
  ELSE DoubleOf(Scale10(Ratio(FromDigits(d)), Len(d) - n), n)

\* m * 2^e in units of 10^(n - 18): quotient and remainder
Units(m, e, n) == RatioDiv(Scale10(Scale2(Ratio(m), 0 - e), n - 18))
\* 10^(n - 1) <= m * 2^e < 10^n, for n one of n0 - 1, n0, n0 + 1
InDecade(w) == Cmp(w.den, MulSmall(w.num, 10)) <= 0 /\ Cmp(w.num, w.den) < 0
Magnitude(m, e, n0) ==
  CHOOSE n \in (n0 - 1)..(n0 + 1) : InDecade(Scale10(Scale2(Ratio(m), 0 - e), n))

\* the decimals that read back as the double m * 2^e lie between low and
\* high, the half-way points to its neighbours, which belong to them when m
\* is even; both in units of 10^(n - 18).  The neighbour below the least
\* normal mantissa of a binade is half as far.
Least(d, m) == IF IsZero(d.r) /\ Limb(m, 1) % 2 = 0 THEN d.q ELSE Add(d.q, <<1>>)
Greatest(d, m) == IF IsZero(d.r) /\ Limb(m, 1) % 2 = 1 THEN Sub(d.q, <<1>>) ELSE d.q
BinadeStart(m, e) == Cmp(m, TwoTo52) = 0 /\ e > -1074
LowBound(m, e, n) ==
  Least(Units(Sub(MulSmall(m, IF BinadeStart(m, e) THEN 4 ELSE 2), <<1>>),
              IF BinadeStart(m, e) THEN e - 2 ELSE e - 1, n), m)
HighBound(m, e, n) == Greatest(Units(Add(MulSmall(m, 2), <<1>>), e - 1, n), m)

\* the numeral c of k digits, in the same units, lies between low and high
Fits(c, k, low, high) ==
  Cmp(low, TimesPow10(c, 18 - k)) <= 0 /\ Cmp(TimesPow10(c, 18 - k), high) <= 0
\* of the first k digits and the numeral one above them, the upper is the
\* nearer to the value written by all the digits (exact: nothing is left
\* after them); half way, the even one of the two is
UpNearer(digits, exact, k) ==
  \/ DigitsLess("5" \o Zeros(17 - k), SubSeq(digits, k + 1, 18))
  \/ /\ SubSeq(digits, k + 1, 18) = "5" \o Zeros(17 - k)
     /\ ~exact \/ DigitVal(Char(digits, k)) % 2 = 1
Nearest(down, up, fitsDown, fitsUp, upNearer) ==
  IF fitsDown /\ ~fitsUp THEN down
  ELSE IF fitsUp /\ ~fitsDown THEN up
  ELSE IF upNearer THEN up ELSE down

RECURSIVE ShortestFrom(_, _, _, _, _)
Candidate(k, down, up, fitsDown, fitsUp, digits, exact, low, high) ==
  IF fitsDown \/ fitsUp \/ k = 17
  THEN [s |-> ToDigits(Nearest(down, up, fitsDown, fitsUp, UpNearer(digits, exact, k))),
        k |-> k]
  ELSE ShortestFrom(k + 1, digits, exact, low, high)
Between(k, down, up, digits, exact, low, high) ==
  Candidate(k, down, up, Fits(down, k, low, high), Fits(up, k, low, high),
            digits, exact, low, high)
\* of the numerals between low and high the one with the fewest digits, k at
\* least, and of two as short the one nearer to the value; [s, k]: the
\* numeral s, of which k digits come after the leading "0."
ShortestFrom(k, digits, exact, low, high) ==
  Between(k, FromDigits(SubSeq(digits, 1, k)), Add(FromDigits(SubSeq(digits, 1, k)), <<1>>),
          digits, exact, low, high)

Written(p, n) == NumberToString(StripTrailingZeros(p.s), n + Len(p.s) - p.k)
ShortestOf(w, low, high) == ShortestFrom(1, ToDigits(w.q), IsZero(w.r), low, high)
DigitsAt(m, e, n) ==
  Written(ShortestOf(Units(m, e, n), LowBound(m, e, n), HighBound(m, e, n)), n)
\* String(x) for the finite double x = m * 2^e
DoubleToString(m, e, n0) == DigitsAt(m, e, Magnitude(m, e, n0))

DoubleText(x, n) ==
  IF x.cls = "zero" THEN "0"
  ELSE IF x.cls = "inf" THEN "Infinity"
  ELSE DoubleToString(x.m, x.e, n)
\* the double nearest to 0.d * 10^n, as String(x) writes it; a decimal of at
\* most 15 digits between 1e-307 and 1e308 is itself the shortest decimal
\* that reads back as its nearest double, and is written without the detour
NearestDouble(d, n) ==
  IF d # "" /\ Len(d) <= 15 /\ n >= -306 /\ n <= 308 THEN NumberToString(d, n)
  ELSE DoubleText(ToDouble(d, n), n)

\* the exponent written with the digits e, cut off where the result is
\* Infinity or 0 whatever the digits of the mantissa
ExponentValue(e) ==
  IF Len(StripLeadingZeros(e)) > 6 THEN 1000000
  ELSE ParseDigits(StripLeadingZeros(e), 1, 0).val

Signed(neg, s) == IF neg /\ s # "0" THEN "-" \o s ELSE s
\* the number written int.frac e exp
DecimalNumber(neg, int, frac, exp) ==
  JNumber(Signed(neg,
    NearestDouble(StripTrailingZeros(StripLeadingZeros(int \o frac)),
                  Len(int) - (Len(int \o frac) - Len(StripLeadingZeros(int \o frac))) + exp)))

(***************************************************************************)
(* JSON.parse: a recursive-descent parser of the JSON grammar.  Results    *)
(* are [ok, val, next]; ok = FALSE is the SyntaxError JSON.parse throws.   *)
(***************************************************************************)
PFail == [ok |-> FALSE, val |-> JUndef, next |-> 0]
POk(v, next) == [ok |-> TRUE, val |-> v, next |-> next]

IsWs(c) == c \in {" ", "\n", "\t", "\r"}

RECURSIVE SkipWs(_, _)
SkipWs(t, i) == IF IsWs(Char(t, i)) THEN SkipWs(t, i + 1) ELSE i

\* a canonical array index: "0", "1", ... up to 2^32 - 2
IsArrayIndex(key) ==
  /\ key # ""
  /\ \A i \in 1..Len(key) : IsDigit(Char(key, i))
  /\ Char(key, 1) = "0" => key = "0"
  /\ ~DigitsLess("4294967294", key)

\* obj[key] = val on an ordinary object: a member set again keeps its
\* position and takes the new value; a new array index goes among the array
\* indices, which come first in ascending order; any other new key goes last
SetMember(members, key, val) ==
  LET Before(p) == SubSeq(members, 1, p) \o <<M(key, val)>> \o SubSeq(members, p + 1, Len(members))
  IN IF \E i \in 1..Len(members) : members[i].key = key
     THEN [i \in 1..Len(members) |->
             IF members[i].key = key THEN M(key, val) ELSE members[i]]
     ELSE IF IsArrayIndex(key)
     THEN Before(Cardinality({i \in 1..Len(members) :
                                /\ IsArrayIndex(members[i].key)
                                /\ DigitsLess(members[i].key, key)}))
     ELSE Append(members, M(key, val))

\* the character(s) a two-character escape stands for; "" when there is none
UnescapeChar(c) ==
  CASE c = "\"" -> "\"" [] c = "\\" -> "\\" [] c = "/" -> "/"
    [] c = "b" -> CodeUnit(8) [] c = "f" -> CodeUnit(12)
    [] c = "n" -> "\n" [] c = "t" -> "\t" [] c = "r" -> "\r"
    [] OTHER -> ""

\* the characters of a string literal after its opening quote
RECURSIVE ParseStrBody(_, _, _)
ParseStrBody(t, i, acc) ==
  LET IsUnicodeEscape ==
        /\ Char(t, i + 1) = "u"
        /\ \A j \in 2..5 : IsHex(Char(t, i + j))
      At(c) ==
        CASE c = "" -> PFail
          [] c = "\"" -> POk(JStr(acc), i + 1)
          [] c = "\\" ->
               IF IsUnicodeEscape
               THEN ParseStrBody(t, i + 6, acc \o CodeUnit(HexCode(t, i + 2)))
               ELSE IF UnescapeChar(Char(t, i + 1)) = "" THEN PFail
               ELSE ParseStrBody(t, i + 2, acc \o UnescapeChar(Char(t, i + 1)))
          [] c \in {"\n", "\t", "\r"} -> PFail
          [] c = UnitMark ->
               IF HexCode(t, i + 1) < 32 THEN PFail
               ELSE ParseStrBody(t, i + 5, acc \o SubSeq(t, i, i + 4))
          [] OTHER -> ParseStrBody(t, i + 1, acc \o c)
  IN At(Char(t, i))

NoNumber == [ok |-> FALSE, int |-> "", frac |-> "", exp |-> 0, next |-> 0]
\* int frac? exp? from t[j] on: the parts of the numeral and the position
\* after it
ScanNumber(t, j) ==
  LET Exp(int, frac, e, signed, last) ==
        IF last = e + signed + 1 THEN NoNumber
        ELSE LET magnitude == ExponentValue(SubSeq(t, e + signed + 1, last - 1))
             IN [ok |-> TRUE, int |-> int, frac |-> frac,
                 exp |-> IF Char(t, e + 1) = "-" THEN 0 - magnitude ELSE magnitude,
                 next |-> last]
      AfterFrac(int, frac, e) ==
        IF Char(t, e) \in {"e", "E"}
        THEN LET signed == IF Char(t, e + 1) \in {"+", "-"} THEN 1 ELSE 0
             IN Exp(int, frac, e, signed, DigitsEnd(t, e + signed + 1))
        ELSE [ok |-> TRUE, int |-> int, frac |-> frac, exp |-> 0, next |-> e]
      Frac(int, p, last) ==
        IF last = p + 1 THEN NoNumber
        ELSE AfterFrac(int, SubSeq(t, p + 1, last - 1), last)
      AfterInt(int, p) ==
        IF int = "" THEN NoNumber
        ELSE IF Char(int, 1) = "0" /\ Len(int) > 1 THEN NoNumber
        ELSE IF Char(t, p) = "." THEN Frac(int, p, DigitsEnd(t, p + 1))
        ELSE AfterFrac(int, "", p)
      IntPart(last) == AfterInt(SubSeq(t, j, last - 1), last)
  IN IntPart(DigitsEnd(t, j))

NumberAt(neg, numeral) ==
  IF ~numeral.ok THEN PFail
  ELSE POk(DecimalNumber(neg, numeral.int, numeral.frac, numeral.exp), numeral.next)
\* -? int frac? exp?
ParseNumber(t, i) ==
  NumberAt(Char(t, i) = "-", ScanNumber(t, IF Char(t, i) = "-" THEN i + 1 ELSE i))

ParseLiteral(t, i, word, v) ==
  IF i + Len(word) - 1 <= Len(t) /\ SubSeq(t, i, i + Len(word) - 1) = word
  THEN POk(v, i + Len(word)) ELSE PFail

RECURSIVE ParseValue(_, _), ParseElements(_, _, _), ParseMembers(_, _, _)
ParseValueAt(t, i, c) ==
  CASE c = "{" ->
         IF Char(t, SkipWs(t, i + 1)) = "}"
         THEN POk(JObj(<<>>), SkipWs(t, i + 1) + 1)
         ELSE ParseMembers(t, i + 1, <<>>)
    [] c = "[" ->
         IF Char(t, SkipWs(t, i + 1)) = "]"
         THEN POk(JArr(<<>>), SkipWs(t, i + 1) + 1)
         ELSE ParseElements(t, i + 1, <<>>)
    [] c = "\"" -> ParseStrBody(t, i + 1, "")
    [] c = "t" -> ParseLiteral(t, i, "true", JTrue)
    [] c = "f" -> ParseLiteral(t, i, "false", JFalse)
    [] c = "n" -> ParseLiteral(t, i, "null", JNull)
    [] c = "-" \/ IsDigit(c) -> ParseNumber(t, i)
    [] OTHER -> PFail
ParseValue(t, i0) == ParseValueAt(t, SkipWs(t, i0), Char(t, SkipWs(t, i0)))

\* the elements of an array after "[" or ","
ParseElements(t, i, acc) ==
  LET After(e, j) ==
        CASE Char(t, j) = "," -> ParseElements(t, j + 1, Append(acc, e.val))
          [] Char(t, j) = "]" -> POk(JArr(Append(acc, e.val)), j + 1)
          [] OTHER -> PFail
      Element(e) == IF ~e.ok THEN PFail ELSE After(e, SkipWs(t, e.next))
  IN Element(ParseValue(t, i))

\* the members of an object after "{" or ","
ParseMembers(t, i0, acc) ==
  LET After(members, j) ==
        CASE Char(t, j) = "," -> ParseMembers(t, j + 1, members)
          [] Char(t, j) = "}" -> POk(JObj(members), j + 1)
          [] OTHER -> PFail
      Value(key, e) ==
        IF ~e.ok THEN PFail
        ELSE After(SetMember(acc, key.val.s, e.val), SkipWs(t, e.next))
      Colon(key, c) == IF Char(t, c) # ":" THEN PFail ELSE Value(key, ParseValue(t, c + 1))
      Key(key) == IF ~key.ok THEN PFail ELSE Colon(key, SkipWs(t, key.next))
      From(i) == IF Char(t, i) # "\"" THEN PFail ELSE Key(ParseStrBody(t, i + 1, ""))
  IN From(SkipWs(t, i0))

JSONParse(t) ==
  LET Whole(r) == IF r.ok /\ SkipWs(t, r.next) = Len(t) + 1 THEN Ok(r.val) ELSE Thrown
  IN Whole(ParseValue(t, 1))


(***************************************************************************)
(* Type coercions used by Array.prototype.join.                            *)
(***************************************************************************)
RECURSIVE ToJSString(_), JoinFrom(_, _, _)
\* String(v); inside join, null and undefined elements are written as "".
ToJSString(v) ==
  CASE v.k = "str" -> v.s
    [] v.k = "num" -> v.n
    [] v.k = "bool" -> v.n
    [] v.k = "arr" -> JoinFrom(v.a, ",", 1)
    [] v.k = "obj" -> "[object Object]"
    [] OTHER -> ""

JoinFrom(elems, sep, i) ==
  IF i > Len(elems) THEN ""
  ELSE (IF i > 1 THEN sep ELSE "") \o ToJSString(elems[i]) \o JoinFrom(elems, sep, i + 1)

\* elems.join(sep)
Join(elems, sep) == JoinFrom(elems, sep, 1)

(***************************************************************************)
(* Tool results.                                                           *)
(***************************************************************************)
TextItem(text) == JObj(<<M("type", JStr("text")), M("text", text)>>)
ToolResult(items) == JObj(<<M("content", JArr(items))>>)
EmptyResult == ToolResult(<<>>)

(***************************************************************************)
(* The zod schemas InkeepRAGDocumentSchema and InkeepRAGResponseSchema.    *)
(* part_000 declares the optional fields .optional() and both objects      *)
(* .passthrough(); part_001 declares them .optional().nullable() and       *)
(* leaves the objects in zod's default mode, which strips unknown keys.    *)
(* A successful parse builds a new object by assigning to it the declared  *)
(* keys present in the input, in declaration order, then (passthrough) the *)
(* unknown keys; a key named __proto__ is never assigned.  z.record        *)
(* builds its output the same way from every key of the input.             *)
(***************************************************************************)
DocumentKeys == <<"type", "source", "title", "context", "record_type", "url">>
OptionalDocumentKeys == {"title", "context", "record_type", "url"}

InSeq(e, seq) == \E i \in 1..Len(seq) : seq[i] = e

\* items.map(F) as a sequence
Map(items, F(_)) == <<>> \o [i \in 1..Len(items) |-> F(items[i])]
AllOk(outcomes) == \A i \in 1..Len(outcomes) : outcomes[i].ok
Vals(outcomes) == <<>> \o [i \in 1..Len(outcomes) |-> outcomes[i].val]

RECURSIVE MergeObject(_, _, _)
\* the object zod builds from its parsed pairs: finalObject[key] = value for
\* each pair in turn, skipping the key __proto__
MergeObject(pairs, i, acc) ==
  IF i > Len(pairs) THEN acc
  ELSE IF pairs[i].key = "__proto__" THEN MergeObject(pairs, i + 1, acc)
  ELSE MergeObject(pairs, i + 1, SetMember(acc, pairs[i].key, pairs[i].val))

\* z.object(shape) applied to an object whose declared members validated
ZodObjectOutput(v, shapeKeys, parsedOf(_), passthrough) ==
  LET Declared(key) == M(key, parsedOf(key))
      Present(m) == HasKey(v, m.key)
      Unknown(m) == ~InSeq(m.key, shapeKeys)
  IN MergeObject(SelectSeq(Map(shapeKeys, Declared), Present)
                   \o (IF passthrough THEN SelectSeq(v.o, Unknown) ELSE <<>>),
                 1, <<>>)

\* z.record(z.any()) applied to an object
ZodRecord(v) == JObj(MergeObject(v.o, 1, <<>>))

ZodOptionalString(v, nullable) == v.k \in ({"undef", "str"} \cup (IF nullable THEN {"null"} ELSE {}))

\* InkeepRAGDocumentSchema.parse(d)
InkeepRAGDocumentSchema(d, nullable, passthrough) ==
  IF /\ d.k = "obj"
     /\ Get(d, "type").k = "str"
     /\ Get(d, "source").k = "obj"
     /\ \A key \in OptionalDocumentKeys : ZodOptionalString(Get(d, key), nullable)
  THEN LET Field(key) == IF key = "source" THEN ZodRecord(Get(d, key)) ELSE Get(d, key)
       IN Ok(JObj(ZodObjectOutput(d, DocumentKeys, Field, passthrough)))
  ELSE Thrown

\* InkeepRAGResponseSchema.parse(v)
InkeepRAGResponseSchema(v, nullable, passthrough) ==
  IF v.k = "obj" /\ Get(v, "content").k = "arr"
  THEN LET Document(d) == InkeepRAGDocumentSchema(d, nullable, passthrough)
           Documents(parsed) ==
             IF AllOk(parsed)
             THEN LET Field(key) == JArr(Vals(parsed))
                  IN Ok(JObj(ZodObjectOutput(v, <<"content">>, Field, passthrough)))
             ELSE Thrown
       IN Documents(Map(Get(v, "content").a, Document))
  ELSE Thrown

(***************************************************************************)
(* openai.beta.chat.completions.parse with zodResponseFormat(schema): the  *)
(* SDK adds message.parsed to every choice.  parsed is null when the       *)
(* content is falsy; otherwise it is schema.parse(JSON.parse(content)),    *)
(* and a failure of either propagates out of the call.  JSON.parse reads   *)
(* String(content): the text itself for a string, the elements joined by   *)
(* "," for an array, "[object Object]" for any other object.               *)
(***************************************************************************)
ParseChoice(choice, nullable, passthrough) ==
  IF IsNullish(choice) \/ IsNullish(Get(choice, "message")) THEN Thrown
  ELSE LET Validate(json) ==
             IF ~json.ok THEN Thrown
             ELSE InkeepRAGResponseSchema(json.val, nullable, passthrough)
           Parsed(content) ==
             IF ~Truthy(content) THEN Ok(JNull)
             ELSE Validate(JSONParse(ToJSString(content)))
       IN Parsed(Get(Get(choice, "message"), "content"))

\* the list of message.parsed values, one per choice
CompletionsParse(response, nullable, passthrough) ==
  IF Get(response, "choices").k # "arr" THEN Thrown
  ELSE LET Choice(choice) == ParseChoice(choice, nullable, passthrough)
           Choices(parsed) == IF AllOk(parsed) THEN Ok(JArr(Vals(parsed))) ELSE Thrown
       IN Choices(Map(Get(response, "choices").a, Choice))

(***************************************************************************)
(* part_001: the callback of parsed.content.map(doc => ...).               *)
(***************************************************************************)
NoContentAvailable == "No content available"

\* doc.source.content.filter(item => item.text).map(item => item.text)
SourceTexts(items) ==
  IF \E i \in 1..Len(items) : IsNullish(items[i]) THEN Thrown
  ELSE LET HasText(item) == Truthy(Get(item, "text"))
           Text(item) == Get(item, "text")
       IN Ok(JArr(Map(SelectSeq(items, HasText), Text)))

\* a derivation that prefers source.text to the nested source.content
DeriveTextPlainFirst(doc) ==
  LET Joined(texts) == IF texts.ok THEN Ok(JStr(Join(texts.val.a, "\n"))) ELSE Thrown
      From(source) ==
        IF source.k \in {"obj", "arr"}
        THEN IF Get(source, "text").k = "str"
             THEN Ok(Get(source, "text"))
             ELSE IF IsArray(Get(source, "content")) /\ Len(Get(source, "content").a) > 0
             THEN Joined(SourceTexts(Get(source, "content").a))
             ELSE Ok(JStr(Stringify(source)))
        ELSE IF source.k = "undef" THEN Ok(JUndef)
        ELSE Ok(JStr(Stringify(source)))
  IN From(Get(doc, "source"))

\* the value of `text` after the if/else chain
DeriveText(doc) ==
  LET Joined(texts) == IF texts.ok THEN Ok(JStr(Join(texts.val.a, "\n"))) ELSE Thrown
      From(source) ==
        IF source.k \in {"obj", "arr"}
        THEN IF IsArray(Get(source, "content")) /\ Len(Get(source, "content").a) > 0
             THEN Joined(SourceTexts(Get(source, "content").a))
             ELSE IF Get(source, "text").k = "str"
             THEN Ok(Get(source, "text"))
             ELSE Ok(JStr(Stringify(source)))
        ELSE IF source.k = "undef" THEN Ok(JUndef)
        ELSE Ok(JStr(Stringify(source)))
  IN From(Get(doc, "source"))

\* a callback that returns the derived text as it is, empty or not
FormatDocumentNoPlaceholder(doc) ==
  LET Item(text) ==
        IF ~text.ok THEN Thrown
        ELSE Ok(TextItem(IF Truthy(text.val) THEN text.val ELSE JStr("")))
  IN Item(DeriveText(doc))

\* the item the callback returns for one document
FormatDocument(doc) ==
  LET Item(text) ==
        IF ~text.ok THEN Thrown
        ELSE Ok(TextItem(IF Truthy(text.val) THEN text.val ELSE JStr(NoContentAvailable)))
  IN Item(DeriveText(doc))

\* parsed.content.map(callback)
FormattedContent(docs) ==
  LET Items(items) == IF AllOk(items) THEN Ok(Vals(items)) ELSE Thrown
  IN Items(Map(docs, FormatDocument))

(***************************************************************************)
(* The handlers after the upstream call has resolved with `response`.      *)
(* Each Body operator is the code inside the handler's try block: Ok(r)    *)
(* when it reaches `return r`, Thrown when a statement throws.             *)
(***************************************************************************)
\* response.choices?.[0]?.message?.content
FirstContent(response) ==
  OptGet(OptGet(OptIndex0(Get(response, "choices")), "message"), "content")

\* an inner try block that returns whatever was parsed
RagIndexInnerNoArrayCheck(inkeepResponse) ==
  LET Parsed(parsedContent) ==
        IF ~parsedContent.ok \/ IsNullish(parsedContent.val) THEN Thrown
        ELSE Ok(parsedContent.val)
  IN Parsed(IF inkeepResponse.k = "str" THEN JSONParse(inkeepResponse.s)
            ELSE Ok(inkeepResponse))

\* index.ts: the inner try block of the search handler
RagIndexInner(inkeepResponse) ==
  LET Parsed(parsedContent) ==
        IF ~parsedContent.ok \/ IsNullish(parsedContent.val) THEN Thrown
        ELSE IF IsArray(Get(parsedContent.val, "content"))
        THEN Ok(parsedContent.val)
        ELSE Ok(JUndef)
  IN Parsed(IF inkeepResponse.k = "str" THEN JSONParse(inkeepResponse.s)
            ELSE Ok(inkeepResponse))

\* index.ts: the search handler from the response to its return
RagIndexBody(response) ==
  LET Inner(inner) ==
        IF inner.ok /\ inner.val.k # "undef" THEN Ok(inner.val) ELSE Ok(EmptyResult)
      From(inkeepResponse) ==
        IF Truthy(inkeepResponse) THEN Inner(RagIndexInner(inkeepResponse))
        ELSE Ok(EmptyResult)
  IN From(FirstContent(response))

\* response.choices[0].message.parsed of the SDK's parsed completion
FirstParsed(parsedChoices) ==
  IF Len(parsedChoices.a) = 0 THEN Thrown ELSE Ok(parsedChoices.a[1])

\* part_000: the search handler from the awaited parse call to its return
RagPart000Body(response) ==
  LET Parsed(parsedResponse) ==
        IF ~parsedResponse.ok THEN Thrown
        ELSE IF Truthy(parsedResponse.val)
        THEN Ok(ToolResult(<<TextItem(JStr(Stringify(parsedResponse.val)))>>))
        ELSE Ok(EmptyResult)
      Awaited(completion) ==
        IF ~completion.ok THEN Thrown ELSE Parsed(FirstParsed(completion.val))
  IN Awaited(CompletionsParse(response, FALSE, TRUE))

\* part_001: the search handler from the awaited parse call to its return
RagPart001Body(response) ==
  LET Return(formattedContent) ==
        IF formattedContent.ok THEN Ok(ToolResult(formattedContent.val)) ELSE Thrown
      Parsed(parsed) ==
        IF ~parsed.ok THEN Thrown
        ELSE IF IsNullish(parsed.val) THEN Ok(ToolResult(<<>>))
        ELSE Return(FormattedContent(Get(parsed.val, "content").a))
      Awaited(completion) ==
        IF ~completion.ok THEN Thrown ELSE Parsed(FirstParsed(completion.val))
  IN Awaited(CompletionsParse(response, TRUE, FALSE))

\* a question handler that treats the answer as a document payload
QaBodyAsSearch(response) == RagIndexBody(response)

\* all three builds: the question handler from the response to its return
QaBody(response) ==
  LET From(qaResponse) ==
        IF Truthy(qaResponse) THEN Ok(ToolResult(<<TextItem(qaResponse)>>))
        ELSE Ok(EmptyResult)
  IN From(FirstContent(response))

\* a handler without its catch block: the exception reaches the caller
Rethrow(body) ==
  [raised |-> ~body.ok, result |-> IF body.ok THEN body.val ELSE JUndef]

\* catch (error) { console.error(...); return { content: [] }; }
CatchAll(body) ==
  [raised |-> FALSE, result |-> IF body.ok THEN body.val ELSE EmptyResult]


(***************************************************************************)
(* Bounds and input domains.                                               *)
(***************************************************************************)
\* tool invocations in one run
MaxInvocations == 1
\* documents in a collection built from CoreDocuments
MaxDocs == 2
\* sub-items in a nested source.content built from SubItems
MaxItems == 2

Builds == {"index", "part_000", "part_001"}
Paths == {"/sse", "/sse/message", "/mcp", "/other"}

EnvFull ==
  JObj(<<M("INKEEP_API_BASE_URL", JStr("https://inkeep.example/v1")),
         M("INKEEP_API_KEY", JStr("sk-live")),
         M("INKEEP_API_MODEL", JStr("custom-model")),
         M("INKEEP_PRODUCT_SLUG", JStr("acme")),
         M("INKEEP_PRODUCT_NAME", JStr("Acme"))>>)
EnvEmptyKey ==
  JObj(<<M("INKEEP_API_KEY", JStr("")), M("INKEEP_PRODUCT_NAME", JStr("Acme"))>>)
EnvBare == JObj(<<>>)
Envs == {EnvFull, EnvEmptyKey, EnvBare}

Queries == {"install"}
Questions == {"What is Acme?"}

Doc(source, rest) == JObj(<<M("type", JStr("document")), M("source", source)>> \o rest)
TextPart(t) == JObj(<<M("type", JStr("text")), M("text", JStr(t))>>)

DocA == Doc(JObj(<<M("text", JStr("A"))>>), <<>>)
DocB == Doc(JObj(<<M("content", JArr(<<TextPart("B1"), TextPart("B2")>>))>>),
            <<M("title", JStr("Bee")), M("url", JStr("http://b"))>>)
DocIntro == Doc(JObj(<<M("text", JStr("Hello"))>>),
                <<M("title", JStr("Intro")), M("url", JStr("http://x"))>>)
DocNullItem == Doc(JObj(<<M("content", JArr(<<JNull>>))>>), <<>>)
DocNullTitle == Doc(JObj(<<M("text", JStr("N"))>>), <<M("title", JNull), M("score", JNum(7))>>)
DocNoType == JObj(<<M("source", JObj(<<M("text", JStr("A"))>>))>>)
DocStringSource == Doc(JStr("plain string"), <<>>)
DocEmptyText == Doc(JObj(<<M("text", JStr(""))>>), <<>>)
DocTextless == Doc(JObj(<<M("content", JArr(<<JObj(<<M("type", JStr("image"))>>)>>))>>), <<>>)

CoreDocuments == {DocA, DocB}

RECURSIVE SeqsUpTo(_, _)
\* the sequences over S of length at most n
SeqsUpTo(S, n) ==
  IF n = 0 THEN {<<>>}
  ELSE LET shorter == SeqsUpTo(S, n - 1)
       IN shorter \cup {Append(q, e) : q \in shorter, e \in S}

\* structured payloads the upstream may send as message.content
\* n documents, alternately d and the other core document
Alternating(d, n) ==
  <<>> \o [k \in 1..n |-> IF k % 2 = 1 THEN d ELSE CHOOSE e \in CoreDocuments : e # d]
Collections ==
  {JObj(<<M("content", JArr(Alternating(d, n)))>>) : d \in CoreDocuments, n \in 0..MaxDocs}
    \cup {JObj(<<M("content", JArr(<<d>>))>>) :
            d \in {DocIntro, DocNullItem, DocNullTitle, DocNoType, DocStringSource,
                    DocEmptyText, DocTextless}}
    \cup {JObj(<<M("content", JArr(<<DocA>>)), M("id", JStr("r1"))>>)}
UnusablePayloads ==
  {JObj(<<M("documents", JArr(<<DocA>>))>>), JObj(<<M("content", JStr("none"))>>), JNull}
InvalidJsonTexts == {"not json", "{\"content\":["}
\* JSON texts with a fraction, an exponent, a \u escape, integer-like keys and
\* own members named __proto__
EscapedJsonTexts ==
  {"{\"content\":[{\"type\":\"document\",\"source\":{\"__proto__\":1,\"text\":\"A\"}}],\"__proto__\":1}",
   "{\"content\":[{\"type\":\"document\",\"source\":{\"b\":1.50,\"1\":\"it\\u2019s\"},\"title\":\"\\u0041\"}],\"2\":1e3}"}

\* a content that is no string: an array holding one JSON text
ArrayContents ==
  {JArr(<<JStr(Stringify(p))>>) :
     p \in {JObj(<<M("content", JArr(<<>>))>>), JObj(<<M("content", JArr(<<DocA>>))>>)}}

Completion(content) ==
  JObj(<<M("choices", JArr(<<JObj(<<M("message",
         JObj(<<M("role", JStr("assistant")), M("content", content)>>))>>)>>))>>)
NoChoices == JObj(<<M("choices", JArr(<<>>))>>)
NoContent ==
  JObj(<<M("choices", JArr(<<JObj(<<M("message", JObj(<<M("role", JStr("assistant"))>>))>>)>>))>>)

\* completions the upstream may resolve a search call with
RagResponses ==
  {Completion(JStr(Stringify(p))) : p \in Collections \cup UnusablePayloads}
    \cup {Completion(JStr(t)) : t \in InvalidJsonTexts \cup EscapedJsonTexts}
    \cup {Completion(p) : p \in {JObj(<<M("content", JArr(<<DocA>>))>>),
                                 JObj(<<M("documents", JArr(<<>>))>>)} \cup ArrayContents}
    \cup {Completion(JNull), Completion(JStr("")), NoChoices, NoContent}

\* completions the upstream may resolve a question call with
QaResponses ==
  {Completion(JStr(t)) : t \in {"Paris is the capital of France.", "  padded \n",
                                "{\"content\":[]}", ""}}
    \cup {Completion(JNull), NoChoices, NoContent}

Responses(tool) ==
  CASE tool = "rag" -> RagResponses
    [] tool = "qa" -> QaResponses
    [] OTHER -> {}

\* nested sub-items and sources for the formatter
SubItems == {TextPart("A"), TextPart("B"), TextPart(""), JObj(<<M("type", JStr("image"))>>), JNull}
NestedSources ==
  {JObj(<<M("content", JArr(items))>>) : items \in SeqsUpTo(SubItems, MaxItems)}
OtherSources ==
  {JObj(<<M("text", JStr("Hello"))>>), JObj(<<M("text", JStr(""))>>),
   JObj(<<M("text", JNum(5))>>),
   JObj(<<M("type", JStr("url")), M("url", JStr("http://s"))>>),
   JObj(<<M("content", JArr(<<JObj(<<M("type", JStr("image"))>>)>>)), M("text", JStr("T"))>>),
   JObj(<<M("content", JArr(<<>>)), M("text", JStr("E"))>>),
   JObj(<<M("content", JStr("inline"))>>),
   JObj(<<M("content", JNull), M("text", JStr("T"))>>),
   JObj(<<M("text", JNull)>>),
   JObj(<<M("1", JStr("it\f2019s \"x\"")), M("score", JNumber("0.87"))>>),
   JObj(<<>>)}
Sources == NestedSources \cup OtherSources
Decorations ==
  {<<>>, <<M("title", JStr("Intro"))>>, <<M("url", JStr("http://x"))>>,
   <<M("title", JStr("Intro")), M("url", JStr("http://x"))>>}
FormatInputs == {Doc(src, rest) : src \in Sources, rest \in Decorations}

(***************************************************************************)
(* State.                                                                  *)
(***************************************************************************)
VARIABLES
  build,   \* which of the three builds is deployed
  env,     \* the static field MyMCP.env; undefined before the first configure
  agent,   \* what init() captured and registered
  inv,     \* the tool invocations, by id
  fdoc,    \* formatter specification: the document given to the callback
  fout     \* formatter specification: what the callback produced

vars == <<build, env, agent, inv, fdoc, fout>>

Invocations == 1..MaxInvocations

NoUpstream == [kind |-> "none", response |-> JUndef]
IdleInvocation ==
  [pc |-> "idle", tool |-> "none", apiKey |-> JUndef, apiBaseUrl |-> JUndef,
   apiModel |-> JUndef, messages |-> <<>>, calls |-> 0, upstream |-> NoUpstream,
   result |-> JUndef, raised |-> FALSE]
NoAgent ==
  [initialized |-> FALSE, productName |-> JUndef, ragToolName |-> "", qaToolName |-> ""]
NotFormatted == [done |-> FALSE, ok |-> TRUE, text |-> JUndef, item |-> JUndef]

\* a || b
OrElse(a, b) == IF Truthy(a) THEN a ELSE b

Init ==
  /\ build \in Builds
  /\ env = JUndef
  /\ agent = NoAgent
  /\ inv = [i \in Invocations |-> IdleInvocation]
  /\ fdoc = JUndef
  /\ fout = NotFormatted

(***************************************************************************)
(* MyMCP.configure and the worker's fetch.                                 *)
(***************************************************************************)
\* static configure(env) { MyMCP.env = env; }
configure(e) == env' = e

Fetch(path, e) ==
  /\ IF path \in {"/sse", "/sse/message", "/mcp"} THEN configure(e) ELSE UNCHANGED env
  /\ UNCHANGED <<build, agent, inv, fdoc, fout>>

(***************************************************************************)
(* init(): reads the product identity and registers the two tools.         *)
(***************************************************************************)
AgentInit ==
  /\ env # JUndef
  /\ ~agent.initialized
  /\ LET productSlug == OrElse(Get(env, "INKEEP_PRODUCT_SLUG"), JStr("inkeep"))
         productName == OrElse(Get(env, "INKEEP_PRODUCT_NAME"), JStr("Inkeep"))
     IN agent' = [initialized |-> TRUE,
                  productName |-> productName,
                  ragToolName |-> "search-" \o productSlug.s \o "-docs",
                  qaToolName |-> "ask-question-about-" \o productSlug.s]
  /\ UNCHANGED <<build, env, inv, fdoc, fout>>

(***************************************************************************)
(* A tool handler from its call to its first suspension or early return.   *)
(***************************************************************************)
DefaultBaseUrl == JStr("https://api.inkeep.com/v1")

\* the model name the handler sends
ApiModel(tool) ==
  LET default == JStr(IF tool = "rag" THEN "inkeep-rag" ELSE "inkeep-qa-expert") IN
  IF build = "index" THEN OrElse(Get(env, "INKEEP_API_MODEL"), default) ELSE default

\* the messages the handler sends
Messages(tool, arg) ==
  IF tool = "qa" /\ build = "index"
  THEN <<[role |-> "system",
          content |-> "You are an AI assistant knowledgeable about "
                        \o agent.productName.s \o "."],
         [role |-> "user", content |-> arg]>>
  ELSE <<[role |-> "user", content |-> arg]>>

\* a handler that starts the upstream call without checking the key
HandlerStartKeyUnchecked(tool, arg) ==
  [IdleInvocation EXCEPT
     !.pc = "awaiting",
     !.tool = tool,
     !.apiBaseUrl = OrElse(Get(env, "INKEEP_API_BASE_URL"), DefaultBaseUrl),
     !.apiKey = Get(env, "INKEEP_API_KEY"),
     !.apiModel = ApiModel(tool),
     !.messages = Messages(tool, arg),
     !.calls = 1]

\* the handler up to `await openai...`: the settings are read, then the key
\* is checked, then the one upstream call is started
HandlerStart(tool, arg) ==
  LET KeyCheck(read) ==
        IF ~Truthy(read.apiKey)
        THEN [read EXCEPT !.pc = "returned", !.result = EmptyResult]
        ELSE [read EXCEPT !.pc = "awaiting", !.messages = Messages(tool, arg), !.calls = 1]
  IN KeyCheck([IdleInvocation EXCEPT
                 !.tool = tool,
                 !.apiBaseUrl = OrElse(Get(env, "INKEEP_API_BASE_URL"), DefaultBaseUrl),
                 !.apiKey = Get(env, "INKEEP_API_KEY"),
                 !.apiModel = ApiModel(tool)])

CallTool(i, tool, arg) ==
  /\ agent.initialized
  /\ inv[i].pc = "idle"
  /\ IF i = 1 THEN TRUE ELSE inv[i - 1].pc # "idle"
  /\ inv' = [inv EXCEPT ![i] = HandlerStart(tool, arg)]
  /\ UNCHANGED <<build, env, agent, fdoc, fout>>

CallRagTool(i, query) == CallTool(i, "rag", query)
CallQaTool(i, question) == CallTool(i, "qa", question)

(***************************************************************************)
(* A tool handler from the settlement of its upstream call to its return.  *)
(***************************************************************************)
\* the try block after the await
HandlerBody(b, tool, response) ==
  CASE tool = "qa" -> QaBody(response)
    [] tool = "rag" /\ b = "index" -> RagIndexBody(response)
    [] tool = "rag" /\ b = "part_000" -> RagPart000Body(response)
    [] OTHER -> RagPart001Body(response)

\* the awaited call resolved
HandlerResume(b, tool, response) == CatchAll(HandlerBody(b, tool, response))

\* the awaited call rejected
HandlerRejected == CatchAll(Thrown)

Settle(i, upstream, outcome) ==
  inv' = [inv EXCEPT ![i] = [@ EXCEPT !.pc = IF outcome.raised THEN "raised" ELSE "returned",
                                      !.upstream = upstream,
                                      !.result = outcome.result,
                                      !.raised = outcome.raised]]

UpstreamResolve(i, response) ==
  /\ inv[i].pc = "awaiting"
  /\ response \in Responses(inv[i].tool)
  /\ Settle(i, [kind |-> "resolved", response |-> response],
            HandlerResume(build, inv[i].tool, response))
  /\ UNCHANGED <<build, env, agent, fdoc, fout>>

\* a handler that calls the upstream again when the call fails
UpstreamRejectRetry(i) ==
  /\ inv[i].pc = "awaiting"
  /\ inv[i].calls < 3
  /\ inv' = [inv EXCEPT ![i].calls = @ + 1]
  /\ UNCHANGED <<build, env, agent, fdoc, fout>>

UpstreamReject(i) ==
  /\ inv[i].pc = "awaiting"
  /\ Settle(i, [kind |-> "rejected", response |-> JUndef], HandlerRejected)
  /\ UNCHANGED <<build, env, agent, fdoc, fout>>

Next ==
  \/ \E path \in Paths, e \in Envs : Fetch(path, e)
  \/ AgentInit
  \/ \E i \in Invocations, query \in Queries : CallRagTool(i, query)
  \/ \E i \in Invocations, question \in Questions : CallQaTool(i, question)
  \/ \E i \in Invocations, response \in RagResponses \cup QaResponses :
       UpstreamResolve(i, response)
  \/ \E i \in Invocations : UpstreamReject(i)

Spec == Init /\ [][Next]_vars

(***************************************************************************)
(* Formatter specification: the map callback of part_001 applied to one    *)
(* document drawn from FormatInputs.                                       *)
(***************************************************************************)
InitFormat ==
  /\ build = "part_001"
  /\ env = JUndef
  /\ agent = NoAgent
  /\ inv = [i \in Invocations |-> IdleInvocation]
  /\ fdoc \in FormatInputs
  /\ fout = NotFormatted

Format ==
  /\ ~fout.done
  /\ LET Record(text, item) ==
           [done |-> TRUE, ok |-> item.ok, text |-> text.val, item |-> item.val]
     IN fout' = Record(DeriveText(fdoc), FormatDocument(fdoc))
  /\ UNCHANGED <<build, env, agent, inv, fdoc>>

NextFormat == Format

SpecFormat == InitFormat /\ [][NextFormat]_vars

(***************************************************************************)
(* Properties.                                                             *)
(***************************************************************************)
Returned(i) == inv[i].pc = "returned"
Resolved(i) == inv[i].upstream.kind = "resolved"
Rejected(i) == inv[i].upstream.kind = "rejected"
Items(i) == Get(inv[i].result, "content")

\* the payload has no top-level content sequence
NoContentSequence(content, payload) ==
  /\ Truthy(content) /\ payload.ok
  /\ Get(payload.val, "content").k # "arr"

\* the raw content of the completion an invocation got
RawContent(i) == FirstContent(inv[i].upstream.response)

\* the value the search tool has after its parse step: index.ts parses a
\* string content and takes any other content as it is; in the other builds
\* the SDK parses String(content)
Payload(i) ==
  IF build # "index" THEN JSONParse(ToJSString(RawContent(i)))
  ELSE IF RawContent(i).k = "str" THEN JSONParse(RawContent(i).s)
  ELSE Ok(RawContent(i))

SearchResolved(i) == Returned(i) /\ inv[i].tool = "rag" /\ Resolved(i)

StartsWith(t, prefix) == Len(t) >= Len(prefix) /\ SubSeq(t, 1, Len(prefix)) = prefix
EndsWith(t, suffix) ==
  Len(t) >= Len(suffix) /\ SubSeq(t, Len(t) - Len(suffix) + 1, Len(t)) = suffix

\* { type: "text", text: <string> } and nothing else
IsTextItem(v) ==
  /\ v.k = "obj"
  /\ Len(v.o) = 2
  /\ Get(v, "type") = JStr("text")
  /\ Get(v, "text").k = "str"

\* { content: [ text items ] } and nothing else
IsToolResult(v) ==
  /\ v.k = "obj"
  /\ Len(v.o) = 1
  /\ Get(v, "content").k = "arr"
  /\ \A k \in 1..Len(Get(v, "content").a) : IsTextItem(Get(v, "content").a[k])

(* The failures of an invocation, by stage, told from what it read and got. *)
MissingCredential(i) == inv[i].pc # "idle" /\ ~Truthy(inv[i].apiKey)

\* the parse step is given a content that JSON.parse rejects (payload is the
\* outcome of the step)
NotJson(content, payload) == Truthy(content) /\ ~payload.ok
\* content is JSON text that the build's schema rejects
SchemaRejects(content, payload) ==
  /\ build # "index"
  /\ Truthy(content) /\ payload.ok
  /\ ~InkeepRAGResponseSchema(payload.val, build = "part_001", build = "part_000").ok
\* content passes the schema and the derivation of some snippet throws
DerivationThrows(content, payload) ==
  /\ build = "part_001"
  /\ Truthy(content) /\ payload.ok
  /\ InkeepRAGResponseSchema(payload.val, TRUE, FALSE).ok
  /\ LET Throws(documents) == \E k \in 1..Len(documents) : ~FormatDocument(documents[k]).ok
     IN Throws(Get(InkeepRAGResponseSchema(payload.val, TRUE, FALSE).val, "content").a)
FailsAfterCall(content, payload) ==
  \/ NotJson(content, payload)
  \/ SchemaRejects(content, payload)
  \/ DerivationThrows(content, payload)

JsonParseFailure(i) == SearchResolved(i) /\ NotJson(RawContent(i), Payload(i))
SchemaRejection(i) == SearchResolved(i) /\ SchemaRejects(RawContent(i), Payload(i))
DerivationThrew(i) == SearchResolved(i) /\ DerivationThrows(RawContent(i), Payload(i))
Failed(i) ==
  \/ MissingCredential(i)
  \/ Rejected(i)
  \/ SearchResolved(i) /\ FailsAfterCall(RawContent(i), Payload(i))

\* C1: in every build and for both tools, an invocation that reads an absent
\* or empty API key returns exactly { content: [] } and starts no upstream
\* call: the key check comes before the client and the completion call.
MissingKeyReturnsEmptyWithoutCall ==
  \A i \in Invocations :
    MissingCredential(i) =>
      /\ Returned(i)
      /\ inv[i].result = EmptyResult
      /\ inv[i].calls = 0
      /\ inv[i].upstream = NoUpstream

MissingKeyWitness ==
  \E i \in Invocations :
    Returned(i) /\ inv[i].tool = "rag" /\ inv[i].apiKey = JStr("") /\ inv[i].calls = 0

\* C2: a tool invocation never raises to its caller; after a failure at any
\* stage (missing credential, upstream exception, JSON parse failure, schema
\* rejection, exception while deriving a snippet) it returns { content: [] }.
InvocationNeverRaises ==
  \A i \in Invocations :
    /\ inv[i].pc # "raised"
    /\ ~inv[i].raised
    /\ (Returned(i) /\ inv[i].result # EmptyResult) => ~Failed(i)

DerivationFailureWitness ==
  \E i \in Invocations : Returned(i) /\ DerivationThrew(i) /\ inv[i].result = EmptyResult

\* C3: every result returned by either tool is { content: [...] } whose items
\* are all { type: "text", text: <string> }; raw upstream documents never
\* appear as items.
EveryResultIsTextItems ==
  \A i \in Invocations : Returned(i) => IsToolResult(inv[i].result)

\* C4: the question tool returns exactly one text item carrying the first
\* choice's content unmodified when that content is a non-empty string, and
\* { content: [] } when it is absent, null or empty or there are no choices.
AnswerIsContentVerbatim ==
  \A i \in Invocations :
    (Returned(i) /\ inv[i].tool = "qa" /\ Resolved(i)) =>
      /\ (RawContent(i).k = "str" /\ RawContent(i).s # "") =>
           inv[i].result = ToolResult(<<TextItem(JStr(RawContent(i).s))>>)
      /\ (RawContent(i).k \in {"undef", "null"} \/ RawContent(i) = JStr("")) =>
           inv[i].result = EmptyResult

AnswerWitness ==
  \E i \in Invocations :
    /\ Returned(i) /\ inv[i].tool = "qa"
    /\ RawContent(i) = JStr("  padded \n")
    /\ inv[i].result = ToolResult(<<TextItem(JStr("  padded \n"))>>)

(* The text body the priority rule of the specification gives a source.    *)
RECURSIVE JoinLines(_, _)
JoinLines(texts, k) ==
  IF k > Len(texts) THEN ""
  ELSE (IF k > 1 THEN "\n" ELSE "") \o texts[k] \o JoinLines(texts, k + 1)

HasTextField(item) == item.k = "obj" /\ HasKey(item, "text")
NestedItems(source) ==
  IF source.k = "obj" /\ Get(source, "content").k = "arr" THEN Get(source, "content").a
  ELSE <<>>
\* (i) applies: a nested sequence of sub-items each with a text field
EachHasText(source) ==
  /\ Len(NestedItems(source)) > 0
  /\ \A k \in 1..Len(NestedItems(source)) : HasTextField(NestedItems(source)[k])
TextsOf(items) == [k \in 1..Len(items) |-> ToJSString(Get(items[k], "text"))]
BodyByPriority(source) ==
  IF EachHasText(source) THEN JoinLines(TextsOf(NestedItems(source)), 1)
  ELSE IF source.k = "obj" /\ Get(source, "text").k = "str" THEN Get(source, "text").s
  ELSE Stringify(source)

\* C5 as stated: the body is (i) the nested sub-texts joined with "\n" when
\* every sub-item has a text field, (ii) else the plain string source.text,
\* (iii) else, also when no sub-item has text, the serialized source.
BodyFollowsStatedPriority ==
  fout.done => fout.ok /\ fout.text = JStr(BodyByPriority(Get(fdoc, "source")))

(* What the derivation does with a non-empty nested sequence.              *)
Kept(items) ==
  LET HasText(item) == Truthy(Get(item, "text")) IN SelectSeq(items, HasText)

\* C5 amended: a non-empty source.content array decides alone: the body is
\* the non-empty sub-texts joined with "\n" in order, sub-items without text
\* or with an empty text being skipped (the body is empty when none is left)
\* and a null sub-item making the derivation throw; otherwise the body is the
\* string source.text; otherwise the body is the serialized source.
BodyFollowsContentThenTextThenJson ==
  fout.done =>
    LET source == Get(fdoc, "source")
        items == NestedItems(source)
    IN IF Len(items) > 0
       THEN IF \E k \in 1..Len(items) : IsNullish(items[k])
            THEN ~fout.ok
            ELSE fout.ok /\ fout.text = JStr(JoinLines(TextsOf(Kept(items)), 1))
       ELSE IF source.k = "obj" /\ Get(source, "text").k = "str"
       THEN fout.ok /\ fout.text = Get(source, "text")
       ELSE fout.ok /\ fout.text = JStr(Stringify(source))

NestedTextsWitness ==
  /\ fout.done
  /\ Get(fdoc, "source") = JObj(<<M("content", JArr(<<TextPart("A"), TextPart("B")>>))>>)
  /\ fout.text = JStr("A\nB")

(* The documents of a valid Document Collection: every document has a      *)
(* string type and an object source, and its optional fields are strings.  *)
ValidCollection(i) ==
  /\ SearchResolved(i)
  /\ RawContent(i).k = "str" /\ RawContent(i).s # "" /\ Payload(i).ok
  /\ InkeepRAGResponseSchema(Payload(i).val, FALSE, TRUE).ok
Documents(i) == Get(Payload(i).val, "content").a

TitleOf(doc) == Get(doc, "title")
UrlOf(doc) == Get(doc, "url")

\* C6: a snippet begins with the document's title and a blank line when the
\* document has a title and ends with the line "Source: {url}" when it has a
\* url; title "Intro", source {text:"Hello"}, url "http://x" give exactly
\* "Intro\n\nHello\n\nSource: http://x".
SnippetCarriesTitleAndUrl ==
  \A i \in Invocations :
    (ValidCollection(i) /\ build = "part_001" /\ ~DerivationThrew(i)) =>
      /\ Items(i).k = "arr" /\ Len(Items(i).a) = Len(Documents(i))
      /\ \A k \in 1..Len(Documents(i)) :
           LET text == Get(Items(i).a[k], "text").s
               doc == Documents(i)[k]
           IN /\ TitleOf(doc).k = "str" => StartsWith(text, TitleOf(doc).s \o "\n\n")
              /\ UrlOf(doc).k = "str" => EndsWith(text, "\nSource: " \o UrlOf(doc).s)
              /\ doc = DocIntro => text = "Intro\n\nHello\n\nSource: http://x"

\* an item that comes from one document: the document itself or its snippet
DerivedFrom(item, doc) ==
  item = doc \/ (FormatDocument(doc).ok /\ item = FormatDocument(doc).val)

\* C7: for every valid Document Collection of n documents the search tool
\* returns exactly n snippets, the k-th derived from the k-th document.
CountAndOrderPreserved ==
  \A i \in Invocations :
    ValidCollection(i) =>
      /\ Items(i).k = "arr"
      /\ Len(Items(i).a) = Len(Documents(i))
      /\ \A k \in 1..Len(Documents(i)) : DerivedFrom(Items(i).a[k], Documents(i)[k])

\* C8: an unusable payload gives { content: [] } and never raises: a string
\* content that is not valid JSON, and a parsed or structured value whose
\* top-level content field is absent or is not a sequence.
UnusablePayloadGivesEmpty ==
  \A i \in Invocations :
    /\ inv[i].pc # "raised"
    /\ (SearchResolved(i) /\ inv[i].result # EmptyResult) =>
         LET Unusable(content, payload) ==
               NotJson(content, payload) \/ NoContentSequence(content, payload)
         IN ~Unusable(RawContent(i), Payload(i))

NoContentFieldWitness ==
  \E i \in Invocations :
    /\ SearchResolved(i) /\ build = "index"
    /\ RawContent(i).k = "str" /\ NoContentSequence(RawContent(i), Payload(i))
    /\ ~HasKey(Payload(i).val, "content")
    /\ inv[i].result = EmptyResult

\* C9: an invocation starts at most one upstream completion call: no retry
\* after a failed call, no second call on an empty or malformed response, and
\* nothing changes on its behalf once it has returned.
AtMostOneUpstreamCall ==
  /\ [](\A i \in Invocations : inv[i].calls <= 1)
  /\ [][\A i \in Invocations :
          /\ inv'[i].calls >= inv[i].calls
          /\ inv[i].pc = "awaiting" => inv'[i].calls = inv[i].calls
          /\ inv[i].pc \in {"returned", "raised"} => inv'[i] = inv[i]]_vars

FailedCallNotRetriedWitness ==
  \E i \in Invocations : Returned(i) /\ Rejected(i) /\ inv[i].calls = 1

\* C10: the configuration is resolved once and never modified afterwards, so
\* what an invocation reads is what was in effect when the process was first
\* configured.
ConfigurationNeverModified == [][env # JUndef => env' = env]_vars
(* A document as the upstream may send it: an object with a string type,   *)
(* a source of any JSON shape, and string or null optional fields.         *)
IsDocumentOfAnySource(d) ==
  /\ d.k = "obj"
  /\ Get(d, "type").k = "str"
  /\ HasKey(d, "source")
  /\ \A key \in OptionalDocumentKeys : ZodOptionalString(Get(d, key), TRUE)

\* the document as the map callback of part_001 gets it: the schema's output
\* when the schema accepts the document, the document itself otherwise
AsParsed(d) ==
  IF InkeepRAGDocumentSchema(d, TRUE, FALSE).ok
  THEN InkeepRAGDocumentSchema(d, TRUE, FALSE).val ELSE d

\* the snippet text for a derived body: the body, or the placeholder when the
\* body is empty
TextOrPlaceholder(body) ==
  IF body.k = "str" /\ body.s # "" THEN body ELSE JStr(NoContentAvailable)

\* each document of the payload is rendered as one snippet whose text is the
\* derived body or, when that is empty, the placeholder
RenderedWithPlaceholder(i, content, payload) ==
  (/\ Truthy(content) /\ payload.ok
   /\ payload.val.k = "obj" /\ Get(payload.val, "content").k = "arr"
   /\ \A k \in 1..Len(Get(payload.val, "content").a) :
        /\ IsDocumentOfAnySource(Get(payload.val, "content").a[k])
        /\ DeriveText(AsParsed(Get(payload.val, "content").a[k])).ok) =>
    /\ Items(i).k = "arr"
    /\ Len(Items(i).a) = Len(Get(payload.val, "content").a)
    /\ \A k \in 1..Len(Items(i).a) :
         /\ IsTextItem(Items(i).a[k])
         /\ Get(Items(i).a[k], "text").s # ""
         /\ Get(Items(i).a[k], "text") =
              TextOrPlaceholder(DeriveText(AsParsed(Get(payload.val, "content").a[k])).val)

\* C11: no snippet returned by the search tool has an empty text: a document
\* whose derived text is empty gets the placeholder "No content available",
\* and a document whose source is not an object is rendered through the
\* stringify fallback (placeholder only if the stringified form is empty).
EmptyTextGetsPlaceholder ==
  \A i \in Invocations :
    (SearchResolved(i) /\ build = "part_001") =>
      RenderedWithPlaceholder(i, RawContent(i), Payload(i))

\* some document of the payload has a source that is no object
HasNonObjectSource(payload) ==
  /\ payload.ok /\ payload.val.k = "obj" /\ Get(payload.val, "content").k = "arr"
  /\ \E k \in 1..Len(Get(payload.val, "content").a) :
       /\ IsDocumentOfAnySource(Get(payload.val, "content").a[k])
       /\ Get(Get(payload.val, "content").a[k], "source").k # "obj"

\* C11 amended: every snippet the search tool returns has a non-empty text;
\* when the payload passes the schema and no derivation throws there is one
\* snippet per document, carrying the derived text or, when that is empty,
\* the placeholder "No content available"; a document whose source is not an
\* object is rejected by the schema, so the tool returns { content: [] } and
\* the stringify fallback for non-object sources is never applied.
SnippetTextNeverEmpty ==
  \A i \in Invocations :
    (SearchResolved(i) /\ build = "part_001") =>
      LET Holds(content, payload) ==
            /\ IsToolResult(inv[i].result)
            /\ \A k \in 1..Len(Items(i).a) : Get(Items(i).a[k], "text").s # ""
            /\ (Len(Items(i).a) > 0 \/ ~FailsAfterCall(content, payload)) =>
                 RenderedWithPlaceholder(i, content, payload)
            /\ HasNonObjectSource(payload) => inv[i].result = EmptyResult
      IN Holds(RawContent(i), Payload(i))

PlaceholderWitness ==
  \E i \in Invocations :
    /\ SearchResolved(i) /\ build = "part_001"
    /\ Payload(i).ok /\ Get(Payload(i).val, "content") = JArr(<<DocEmptyText>>)
    /\ inv[i].result = ToolResult(<<TextItem(JStr("No content available"))>>)
=============================================================================
